---------------------------- MODULE Spec2Model ----------------------------
(***************************************************************************)
(* Model of the authentication / authorization core of pf-zambom-back      *)
(* (src/auth.py) as it guards the routes of src/app.py.                    *)
(*                                                                         *)
(* Strings that the code inspects character by character (the              *)
(* Authorization header, claim names, scope and role values) are sequences *)
(* of one-character strings, so that str.split(), str.lower(),             *)
(* str.endswith() and the substring test of `in` are computed.  Strings    *)
(* that are only compared or passed on (messages, key identifiers) are     *)
(* plain strings.                                                          *)
(*                                                                         *)
(* One request (the foreground request, process 0) is followed through the *)
(* whole guard.  The other concurrent requests (processes 1..NumBackground)*)
(* are followed through get_jwks only, the single place where a request    *)
(* touches state shared with other requests.                               *)
(***************************************************************************)
EXTENDS Integers, Sequences, FiniteSets, TLC

\* ------------------------------------------------------------------------
\* Bounds
\* ------------------------------------------------------------------------
NumBackground == 1

\* ------------------------------------------------------------------------
\* Python values
\* ------------------------------------------------------------------------
\* None, an absent header, a missing dict entry
None == [t |-> "none"]

IsNone(x) == x.t = "none"

\* a str value (s: sequence of characters)
Str(s) == [t |-> "str", v |-> s]

\* a list value (l: sequence of character sequences)
List(l) == [t |-> "list", v |-> l]

IsStr(x) == x.t = "str"

IsList(x) == x.t = "list"

\* a dict value (d: a function on the dict's keys)
Dict(d) == [t |-> "dict", v |-> d]

\* bool(x) for None, str, list and dict
Truthy(x) ==
    CASE x.t = "none" -> FALSE
      [] x.t = "dict" -> DOMAIN x.v # {}
      [] OTHER -> x.v # <<>>

\* x or y
Or(x, y) == IF Truthy(x) THEN x ELSE y

\* d.get(k, default) for a dict d
Get(d, k, default) == IF k \in DOMAIN d.v THEN d.v[k] ELSE default

\* ------------------------------------------------------------------------
\* str methods
\* ------------------------------------------------------------------------
IsSpace(c) == c \in {" ", "\t"}

\* str.split() without argument: the maximal runs of non-whitespace
RECURSIVE SplitFrom(_, _, _)
SplitFrom(s, i, word) ==
    IF i > Len(s)
    THEN IF word = <<>> THEN <<>> ELSE <<word>>
    ELSE IF IsSpace(s[i])
         THEN IF word = <<>>
              THEN SplitFrom(s, i + 1, <<>>)
              ELSE <<word>> \o SplitFrom(s, i + 1, <<>>)
         ELSE SplitFrom(s, i + 1, Append(word, s[i]))

Split(s) == SplitFrom(s, 1, <<>>)

Upper ==
    <<"A", "B", "C", "D", "E", "F", "G", "H", "I", "J", "K", "L", "M",
      "N", "O", "P", "Q", "R", "S", "T", "U", "V", "W", "X", "Y", "Z">>

Lowered ==
    <<"a", "b", "c", "d", "e", "f", "g", "h", "i", "j", "k", "l", "m",
      "n", "o", "p", "q", "r", "s", "t", "u", "v", "w", "x", "y", "z">>

LowerChar(c) ==
    IF \E i \in DOMAIN Upper : Upper[i] = c
    THEN Lowered[CHOOSE i \in DOMAIN Upper : Upper[i] = c]
    ELSE c

\* str.lower()
Lower(s) == [i \in DOMAIN s |-> LowerChar(s[i])]

\* str.endswith(suffix)
EndsWith(s, suffix) ==
    /\ Len(suffix) <= Len(s)
    /\ SubSeq(s, Len(s) - Len(suffix) + 1, Len(s)) = suffix

\* `sub in s` for two str: substring
Substring(sub, s) ==
    \E i \in 1..(Len(s) + 1) :
        /\ i + Len(sub) - 1 <= Len(s)
        /\ SubSeq(s, i, i + Len(sub) - 1) = sub

\* `x in l` for a list l
InList(x, l) == \E i \in DOMAIN l : l[i] = x

\* ------------------------------------------------------------------------
\* Outcomes of a call, and the responses the error handlers make of them
\* ------------------------------------------------------------------------
\* flask.abort(status, description=...); a description is kept as the
\* sequence of its fragments, one for a literal, two for an f-string
Abort(status, description) ==
    [kind |-> "abort", status |-> status, description |-> <<description>>]

\* an exception no `except` clause of the code catches
Raise(exc) == [kind |-> "raise", exc |-> exc]

\* a normal return
Return(value) == [kind |-> "return", value |-> value]

\* werkzeug's InternalServerError.description, which Flask hands to the 500
\* handler for an unhandled exception
InternalDescription == "The server encountered an internal error and was unable to complete your request."

ErrorName(status) ==
    CASE status = 401 -> "unauthorized"
      [] status = 403 -> "forbidden"
      [] status = 500 -> "internal_server_error"

\* the JSON error response for an aborted or crashed request
ErrorResponse(outcome) ==
    IF outcome.kind = "abort"
    THEN [status |-> outcome.status, error |-> ErrorName(outcome.status),
          message |-> outcome.description]
    ELSE [status |-> 500, error |-> ErrorName(500),
          message |-> <<InternalDescription>>]

\* the response of a handler that ran (the handlers' own bodies are not modelled)
HandlerResponse == [status |-> 200, error |-> "", message |-> <<>>]

NoResponse == [status |-> 0, error |-> "", message |-> <<>>]

\* ------------------------------------------------------------------------
\* _get_token_auth_header
\* ------------------------------------------------------------------------
bearer == <<"b", "e", "a", "r", "e", "r">>

\* auth: None or Str(header value)
get_token_auth_header(auth) ==
    IF ~Truthy(auth)
    THEN Abort(401, "Authorization header is expected.")
    ELSE LET parts == Split(auth.v) IN
         IF parts = <<>>
         THEN Raise("IndexError")
         ELSE IF Lower(parts[1]) # bearer
         THEN Abort(401, "Authorization header must start with Bearer.")
         ELSE IF Len(parts) = 1
         THEN Abort(401, "Token not found.")
         ELSE IF Len(parts) > 2
         THEN Abort(401, "Authorization header must be Bearer token.")
         ELSE Return(parts[2])

\* ------------------------------------------------------------------------
\* Key lookup: the loop of requires_auth.wrapper over jwks["keys"]
\* ------------------------------------------------------------------------
\* {} (an empty dict)
EmptyDict == Dict([x \in {} |-> None])

\* the dict the loop builds from a matching key
RsaKeyOf(key) ==
    Dict([kty |-> Get(key, "kty", None), kid |-> Get(key, "kid", None),
          use |-> Get(key, "use", None), n |-> Get(key, "n", None),
          e |-> Get(key, "e", None)])

\* the loop runs over all keys and does not stop at a match: the last
\* matching key is the one kept
RECURSIVE ScanKeys(_, _, _, _)
ScanKeys(keys, i, kid, rsa_key) ==
    IF i > Len(keys)
    THEN rsa_key
    ELSE ScanKeys(keys, i + 1, kid,
                  IF Get(keys[i], "kid", None) = kid
                  THEN RsaKeyOf(keys[i])
                  ELSE rsa_key)

\* jwks: the cached key set (a dict); unverified_header: the token's header
FindKey(jwks, unverified_header) ==
    ScanKeys(Get(jwks, "keys", List(<<>>)).v, 1,
             Get(unverified_header, "kid", None), EmptyDict)

\* ------------------------------------------------------------------------
\* jose.jwt.decode as the wrapper calls it
\* ------------------------------------------------------------------------
ALGORITHMS == {"RS256"}

\* jwt.get_unverified_header(token): the header dict of a token whose first
\* segment decodes, JWTError otherwise
get_unverified_header(token) ==
    IF token.header.t = "dict"
    THEN Return(token.header)
    ELSE [kind |-> "raise", exc |-> "JWTError",
          text |-> "Error decoding token headers."]

\* JwtDecode with the audience validated before the expiry
JwtDecodeAudFirst(token, rsa_key) ==
    IF Get(token.header, "alg", None) \notin {Str(a) : a \in ALGORITHMS}
    THEN [kind |-> "raise", exc |-> "JWTError",
          text |-> "The specified alg value is not allowed"]
    ELSE IF Get(rsa_key, "n", None) # Str(token.body.signedBy)
    THEN [kind |-> "raise", exc |-> "JWTError",
          text |-> "Signature verification failed."]
    ELSE IF ~token.body.nbfOK
    THEN [kind |-> "raise", exc |-> "JWTError",
          text |-> "The token is not yet valid (nbf)"]
    ELSE IF ~token.body.audOK
    THEN [kind |-> "raise", exc |-> "JWTError", text |-> "Invalid audience"]
    ELSE IF token.body.expired
    THEN [kind |-> "raise", exc |-> "ExpiredSignatureError",
          text |-> "Signature has expired."]
    ELSE IF ~token.body.issOK
    THEN [kind |-> "raise", exc |-> "JWTError", text |-> "Invalid issuer"]
    ELSE [kind |-> "return", value |-> token.body.payload]

\* A token is [header, body]. header is the decoded first segment (a dict
\* with "alg" and possibly "kid"), or not a dict when it does not decode.
\* body holds what jwt.decode reads: signedBy (the key material that made
\* the signature), whether the iat/nbf, exp, aud and iss claims pass against
\* the clock, API_AUDIENCE and the issuer URL, and payload, the claims dict.
\* jws.verify runs first (algorithm allow-list, then signature); the claims
\* are validated after it in the order iat/nbf, exp, aud, iss.
JwtDecode(token, rsa_key) ==
    IF Get(token.header, "alg", None) \notin {Str(a) : a \in ALGORITHMS}
    THEN [kind |-> "raise", exc |-> "JWTError",
          text |-> "The specified alg value is not allowed"]
    ELSE IF Get(rsa_key, "n", None) # Str(token.body.signedBy)
    THEN [kind |-> "raise", exc |-> "JWTError",
          text |-> "Signature verification failed."]
    ELSE IF ~token.body.nbfOK
    THEN [kind |-> "raise", exc |-> "JWTError",
          text |-> "The token is not yet valid (nbf)"]
    ELSE IF token.body.expired
    THEN [kind |-> "raise", exc |-> "ExpiredSignatureError",
          text |-> "Signature has expired."]
    ELSE IF ~token.body.audOK
    THEN [kind |-> "raise", exc |-> "JWTError", text |-> "Invalid audience"]
    ELSE IF ~token.body.issOK
    THEN [kind |-> "raise", exc |-> "JWTError", text |-> "Invalid issuer"]
    ELSE Return(token.body.payload)

\* ------------------------------------------------------------------------
\* Claim names and values
\* ------------------------------------------------------------------------
k_scope == <<"s", "c", "o", "p", "e">>

k_permissions == <<"p", "e", "r", "m", "i", "s", "s", "i", "o", "n", "s">>

k_roles == <<"r", "o", "l", "e", "s">>

k_role == <<"r", "o", "l", "e">>

slash_roles == <<"/", "r", "o", "l", "e", "s">>

admin == <<"a", "d", "m", "i", "n">>

delete_trip == <<"d", "e", "l", "e", "t", "e", ":", "t", "r", "i", "p">>

delete_investor ==
    <<"d", "e", "l", "e", "t", "e", ":", "i", "n", "v", "e", "s", "t", "o", "r">>

\* ------------------------------------------------------------------------
\* The scope check of requires_auth.wrapper
\* ------------------------------------------------------------------------
\* `scope in perms`: membership for a list, substring for a str
In(x, container) ==
    IF IsList(container) THEN InList(x, container.v)
    ELSE IF IsStr(container) THEN Substring(x, container.v)
    ELSE FALSE

\* TRUE when the loop over required_scopes reaches its end without abort(403)
ScopesGranted(payload, required_scopes) ==
    LET sc == Get(payload, k_scope, None)
        token_scopes == IF IsStr(sc) THEN Split(sc.v) ELSE <<>>
        perms == Get(payload, k_permissions, List(<<>>))
    IN \A i \in DOMAIN required_scopes.v :
           \/ InList(required_scopes.v[i], token_scopes)
           \/ In(required_scopes.v[i], perms)

\* ------------------------------------------------------------------------
\* is_admin_from_payload
\* ------------------------------------------------------------------------
\* any(r.lower() == "admin" for r in l)
AnyAdmin(l) == \E i \in DOMAIN l : Lower(l[i]) = admin

is_admin_from_payload(payload) ==
    IF ~Truthy(payload)
    THEN FALSE
    ELSE LET perms == Or(Get(payload, k_permissions, List(<<>>)), List(<<>>))
             roles0 == Or(Get(payload, k_roles, None), Get(payload, k_role, None))
             roles == IF IsStr(roles0) THEN List(<<roles0.v>>) ELSE roles0
         IN IF IsList(perms) /\ (InList(delete_trip, perms.v)
                                 \/ InList(delete_investor, perms.v))
            THEN TRUE
            ELSE IF IsList(roles) /\ AnyAdmin(roles.v)
            THEN TRUE
            ELSE \E k \in DOMAIN payload.v :
                     /\ EndsWith(k, slash_roles)
                     /\ IsList(payload.v[k])
                     /\ AnyAdmin(payload.v[k].v)

\* ------------------------------------------------------------------------
\* requires_auth: the wrapper from the return of get_jwks on
\* ------------------------------------------------------------------------
\* f is called with request.current_user = payload
Call(payload) == [kind |-> "call", current_user |-> payload]

\* ScopeCheck without the check
ScopeCheckSkipped(payload, required_scopes) == Call(payload)

\* the optional scope check and what follows it: abort(403), or attach the
\* payload and call f
ScopeCheck(payload, required_scopes) ==
    IF Truthy(required_scopes) /\ ~ScopesGranted(payload, required_scopes)
    THEN Abort(403, "insufficient_scope")
    ELSE Call(payload)

\* abort(401, description=f"Invalid token: {e}")
AbortInvalidToken(e) ==
    [kind |-> "abort", status |-> 401,
     description |-> <<"Invalid token: ", e>>]

\* requires_auth_wrapper with the token header decoded before the key set
\* is looked at
requires_auth_wrapper_DecodeFirst(required_scopes, token, jwks) ==
    LET unverified_header == get_unverified_header(token) IN
    IF unverified_header.kind = "raise"
    THEN Abort(401, "Invalid header.")
    ELSE IF IsNone(jwks)
    THEN Abort(500, "JWKS indisponivel")
    ELSE LET rsa_key == FindKey(jwks, unverified_header.value) IN
         IF ~Truthy(rsa_key)
         THEN Abort(401, "Unable to find appropriate key")
         ELSE LET decoded == JwtDecode(token, rsa_key) IN
              IF decoded.kind = "raise"
              THEN IF decoded.exc = "ExpiredSignatureError"
                   THEN Abort(401, "token expired")
                   ELSE AbortInvalidToken(decoded.text)
              ELSE ScopeCheck(decoded.value, required_scopes)

requires_auth_wrapper(required_scopes, token, jwks) ==
    IF IsNone(jwks)
    THEN Abort(500, "JWKS indisponivel")
    ELSE LET unverified_header == get_unverified_header(token) IN
         IF unverified_header.kind = "raise"
         THEN Abort(401, "Invalid header.")
         ELSE LET rsa_key == FindKey(jwks, unverified_header.value) IN
              IF ~Truthy(rsa_key)
              THEN Abort(401, "Unable to find appropriate key")
              ELSE LET decoded == JwtDecode(token, rsa_key) IN
                   IF decoded.kind = "raise"
                   THEN IF decoded.exc = "ExpiredSignatureError"
                        THEN Abort(401, "token expired")
                        ELSE AbortInvalidToken(decoded.text)
                   ELSE ScopeCheck(decoded.value, required_scopes)

\* ------------------------------------------------------------------------
\* requires_admin: requires_auth() around the admin check
\* ------------------------------------------------------------------------
\* requires_admin_wrapper without the admin check
requires_admin_wrapper_NoCheck(token, jwks) ==
    requires_auth_wrapper(None, token, jwks)

\* the outcome keeps current_user: requires_auth attached it before it
\* called the admin check
requires_admin_wrapper(token, jwks) ==
    LET authed == requires_auth_wrapper(None, token, jwks) IN
    IF authed.kind # "call"
    THEN authed
    ELSE IF ~is_admin_from_payload(authed.current_user)
    THEN [kind |-> "abort", status |-> 403,
          description |-> <<"Admin role required">>,
          current_user |-> authed.current_user]
    ELSE authed

\* ------------------------------------------------------------------------
\* Inputs
\* ------------------------------------------------------------------------
Bearer == <<"B", "e", "a", "r", "e", "r">>

Basic == <<"B", "a", "s", "i", "c">>

TokenText == <<"t">>

\* values of the Authorization header: absent, empty, whitespace only,
\* scheme without token, wrong scheme, three parts, and two well-formed ones
Headers ==
    { None,
      Str(<<>>),
      Str(<<" ", "\t", " ">>),
      Str(<<"b", "e", "a", "r", "e", "r">>),
      Str(Basic \o <<" ">> \o TokenText),
      Str(Bearer \o <<" ">> \o TokenText \o <<" ">> \o TokenText),
      Str(Bearer \o <<" ">> \o TokenText),
      Str(<<" ", "B", "E", "A", "R", "E", "R", "\t", " ">> \o TokenText) }

read_trips == <<"r", "e", "a", "d", ":", "t", "r", "i", "p", "s">>

write_trips == <<"w", "r", "i", "t", "e", ":", "t", "r", "i", "p", "s">>

read == <<"r", "e", "a", "d">>

\* guarded routes: @requires_auth() and @requires_admin() as app.py uses
\* them, and @requires_auth([...]) as the decorator's docstring allows
Routes ==
    { [handler |-> "list_trips", guard |-> "auth", required_scopes |-> None],
      [handler |-> "scoped", guard |-> "auth",
       required_scopes |-> List(<<read_trips, write_trips>>)],
      [handler |-> "delete_trip", guard |-> "admin", required_scopes |-> None] }

\* keys the issuer may publish: n stands for the key material
Key(kid, n) ==
    Dict([kty |-> Str("RSA"), kid |-> Str(kid), use |-> Str("sig"),
          n |-> Str(n), e |-> Str("AQAB")])

KeyNoKid ==
    Dict([kty |-> Str("RSA"), use |-> Str("sig"), n |-> Str("N"),
          e |-> Str("AQAB")])

\* JWKS documents of the issuer: two keys, a key without kid, two keys with
\* the same kid, and a document without "keys"
KeySets ==
    { Dict([keys |-> List(<<Key("kB", "N"), Key("kA", "A")>>)]),
      Dict([keys |-> List(<<Key("kA", "A"), KeyNoKid>>)]),
      Dict([keys |-> List(<<Key("kA", "A0"), Key("kA", "A")>>)]),
      Dict([other |-> Str("x")]) }

\* what does not decode as a token header
Garbage == [t |-> "garbage"]

\* a part of the request that the guard has not read (it is left open)
NotRead == [t |-> "notread"]

TokenHeaders ==
    { Garbage,
      Dict([alg |-> Str("RS256")]),
      Dict([alg |-> Str("RS256"), kid |-> Str("kA")]),
      Dict([alg |-> Str("RS256"), kid |-> Str("kB")]),
      Dict([alg |-> Str("HS256"), kid |-> Str("kA")]) }

Signers == {"A", "N", "forged"}

\* token bodies with the payload left open
TokenChecks ==
    [signedBy : Signers, nbfOK : BOOLEAN, expired : BOOLEAN,
     audOK : BOOLEAN, issOK : BOOLEAN]

WithPayload(c, payload) ==
    [signedBy |-> c.signedBy, nbfOK |-> c.nbfOK, expired |-> c.expired,
     audOK |-> c.audOK, issOK |-> c.issOK, payload |-> payload]

Absent == [t |-> "absent"]

k_sub == <<"s", "u", "b">>

k_ns_roles == <<"h", "/", "r", "o", "l", "e", "s">>

\* a claims dict with the entries that are not Absent
Claims(permissions, scope, roles, role, ns_roles) ==
    LET all == { <<k_sub, Str(<<"u">>)>>, <<k_permissions, permissions>>,
                 <<k_scope, scope>>, <<k_roles, roles>>, <<k_role, role>>,
                 <<k_ns_roles, ns_roles>> }
        present == { e \in all : e[2] # Absent }
    IN Dict([k \in { e[1] : e \in present } |->
                (CHOOSE e \in present : e[1] = k)[2]])

Editor == <<"e", "d", "i", "t", "o", "r">>

scope_rw == read_trips \o <<" ">> \o write_trips

\* payloads of the tokens the guarded request carries
GuardPayloads ==
    { Claims(Absent, Absent, Absent, Absent, Absent),
      Claims(List(<<delete_trip>>), Absent, Absent, Absent, Absent),
      Claims(Absent, Absent, Absent, Str(<<"A", "d", "m", "i", "n">>), Absent),
      Claims(Absent, Absent, Absent, Absent, List(<<admin>>)),
      Claims(Absent, Absent, List(<<Editor>>), Absent, Absent),
      Claims(Absent, Absent, List(<<Editor>>), Str(admin), Absent),
      Claims(Absent, Str(scope_rw), Absent, Absent, Absent),
      Claims(List(<<read_trips>>), Absent, Absent, Absent, Absent),
      Claims(Str(scope_rw), Absent, Absent, Absent, Absent),
      Claims(List(<<write_trips>>), Str(read_trips), Absent, Absent, Absent) }

\* ------------------------------------------------------------------------
\* State
\* ------------------------------------------------------------------------
VARIABLES
    AUTH0_DOMAIN,   \* auth.py:10, "" when the environment does not set it
    published,      \* the JWKS document the issuer's endpoint serves
    jwks_cache,     \* auth.py:14, the process-wide _jwks_cache
    stored,         \* history: some get_jwks call has stored a key set
    call,           \* per process: its get_jwks call
    req,            \* the foreground request and its response
    pol             \* the last evaluation of a policy predicate on its own

vars == <<AUTH0_DOMAIN, published, jwks_cache, stored, call, req, pol>>

Foreground == 0

Background == 1..NumBackground

Procs == {Foreground} \cup Background

\* a get_jwks call: pc is "none" (no call), "test" (before the test of the
\* cache), "fetch" (requests.get under way), "ret" (before `return
\* _jwks_cache`), "returned"; val is the value returned.  What the call
\* returns is kept for the foreground request only, with its history:
\* startedAfterStore is `stored` at the test, returnedAfterStore at the
\* return.
NoCall ==
    [pc |-> "none", val |-> None, startedAfterStore |-> FALSE,
     returnedAfterStore |-> FALSE]

NoRoute == [handler |-> "", guard |-> "", required_scopes |-> None]

IdleReq ==
    [pc |-> "idle", auth |-> None, route |-> NoRoute,
     token |-> [header |-> NotRead, body |-> NotRead],
     resp |-> NoResponse, invoked |-> FALSE, current_user |-> None]

NoPol ==
    [op |-> "", payload |-> None, required |-> None, admin |-> FALSE,
     outcome |-> [kind |-> "none"]]

Init ==
    /\ AUTH0_DOMAIN \in {"", "tenant.auth0.com"}
    /\ published \in KeySets
    /\ jwks_cache = None
    /\ stored = FALSE
    /\ call = [p \in Procs |-> NoCall]
    /\ req = IdleReq
    /\ pol = NoPol

\* ------------------------------------------------------------------------
\* get_jwks, statement by statement, for process p
\* ------------------------------------------------------------------------
\* `if _jwks_cache is None:` and, inside it, `if not AUTH0_DOMAIN: return None`
GetJwksTest(p) ==
    /\ call[p].pc = "test"
    /\ call' = [call EXCEPT ![p] =
          LET after == (p = Foreground /\ stored) IN
          IF ~IsNone(jwks_cache)
          THEN [@ EXCEPT !.pc = "ret", !.startedAfterStore = after]
          ELSE IF AUTH0_DOMAIN = ""
          THEN IF p = Foreground
               THEN [@ EXCEPT !.pc = "returned", !.val = None,
                              !.startedAfterStore = after,
                              !.returnedAfterStore = stored]
               ELSE NoCall
          ELSE [@ EXCEPT !.pc = "fetch", !.startedAfterStore = after]]
    /\ UNCHANGED <<AUTH0_DOMAIN, published, jwks_cache, stored, req, pol>>

\* requests.get, raise_for_status and r.json() succeed: `_jwks_cache = r.json()`
FetchOk(p) ==
    /\ call[p].pc = "fetch"
    /\ jwks_cache' = published
    /\ stored' = TRUE
    /\ call' = [call EXCEPT ![p].pc = "ret"]
    /\ UNCHANGED <<AUTH0_DOMAIN, published, req, pol>>

\* one of them raises: `except Exception: ... _jwks_cache = None`
FetchFail(p) ==
    /\ call[p].pc = "fetch"
    /\ jwks_cache' = None
    /\ call' = [call EXCEPT ![p].pc = "ret"]
    /\ UNCHANGED <<AUTH0_DOMAIN, published, stored, req, pol>>

\* `return _jwks_cache`
GetJwksReturn(p) ==
    /\ call[p].pc = "ret"
    /\ call' = [call EXCEPT ![p] =
          IF p = Foreground
          THEN [@ EXCEPT !.pc = "returned", !.val = jwks_cache,
                         !.returnedAfterStore = stored]
          ELSE NoCall]
    /\ UNCHANGED <<AUTH0_DOMAIN, published, jwks_cache, stored, req, pol>>

\* another request reaches get_jwks
BackgroundCall(p) ==
    /\ p \in Background
    /\ call[p].pc = "none"
    /\ call' = [call EXCEPT ![p] = [NoCall EXCEPT !.pc = "test"]]
    /\ UNCHANGED <<AUTH0_DOMAIN, published, jwks_cache, stored, req, pol>>

\* ------------------------------------------------------------------------
\* The foreground request
\* ------------------------------------------------------------------------
Guarded(route, token, jwks) ==
    IF route.guard = "admin"
    THEN requires_admin_wrapper(token, jwks)
    ELSE requires_auth_wrapper(route.required_scopes, token, jwks)

\* the request as it ends with outcome o of its guard
Done(r, o) ==
    [r EXCEPT !.pc = "done",
              !.resp = IF o.kind = "call" THEN HandlerResponse
                       ELSE ErrorResponse(o),
              !.invoked = (o.kind = "call"),
              !.current_user = IF "current_user" \in DOMAIN o
                               THEN o.current_user ELSE None]

\* a request arrives at a guarded route: _get_token_auth_header, then the
\* wrapper up to its call of get_jwks
Receive ==
    /\ req.pc = "idle"
    /\ \E auth \in Headers, route \in Routes :
          LET r == [IdleReq EXCEPT !.auth = auth, !.route = route]
              extracted == get_token_auth_header(auth)
          IN IF extracted.kind = "return"
             THEN /\ \E h \in TokenHeaders :
                        req' = [r EXCEPT !.pc = "get_jwks", !.token.header = h]
                  /\ call' = [call EXCEPT ![Foreground] =
                                 [NoCall EXCEPT !.pc = "test"]]
             ELSE /\ req' = Done(r, extracted)
                  /\ UNCHANGED call
    /\ UNCHANGED <<AUTH0_DOMAIN, published, jwks_cache, stored, pol>>

\* TRUE when the wrapper gets as far as jwt.decode
ReachesDecode(token, jwks) ==
    /\ ~IsNone(jwks)
    /\ get_unverified_header(token).kind = "return"
    /\ Truthy(FindKey(jwks, token.header))

\* the wrapper from the return of get_jwks to the response
Verify ==
    /\ req.pc = "get_jwks"
    /\ call[Foreground].pc = "returned"
    /\ LET jwks == call[Foreground].val IN
       IF ReachesDecode(req.token, jwks)
       THEN \E c \in TokenChecks :
               LET open == [req.token EXCEPT !.body = WithPayload(c, NotRead)]
                   decodes == JwtDecode(open, FindKey(jwks, open.header)).kind
                                 = "return"
               IN \E payload \in IF decodes THEN GuardPayloads ELSE {NotRead} :
                     LET token == [open EXCEPT !.body.payload = payload] IN
                     req' = Done([req EXCEPT !.token = token],
                                 Guarded(req.route, token, jwks))
       ELSE req' = Done(req, Guarded(req.route, req.token, jwks))
    /\ UNCHANGED <<AUTH0_DOMAIN, published, jwks_cache, stored, call, pol>>

\* the response is sent and the next request may arrive
Finish ==
    /\ req.pc = "done"
    /\ req' = IdleReq
    /\ call' = [call EXCEPT ![Foreground] = NoCall]
    /\ UNCHANGED <<AUTH0_DOMAIN, published, jwks_cache, stored, pol>>

Next ==
    \/ Receive
    \/ Verify
    \/ Finish
    \/ \E p \in Procs : GetJwksTest(p)
    \/ \E p \in Procs : FetchOk(p)
    \/ \E p \in Procs : FetchFail(p)
    \/ \E p \in Procs : GetJwksReturn(p)
    \/ \E p \in Background : BackgroundCall(p)

Spec == Init /\ [][Next]_vars

\* ------------------------------------------------------------------------
\* The policy predicates on their own, over generated payloads
\* ------------------------------------------------------------------------
PermissionsValues ==
    { Absent, List(<<>>), List(<<delete_trip>>),
      List(<<read_trips, delete_investor>>), List(<<read_trips>>),
      Str(scope_rw) }

ScopeValues ==
    { Absent, Str(scope_rw), Str(<<" ">> \o write_trips \o <<"\t">>),
      List(<<read_trips>>) }

RolesValues ==
    { Absent, Str(admin), Str(Editor), List(<<Editor>>),
      List(<<Editor, <<"A", "D", "M", "I", "N">>>>), List(<<>>) }

RoleValues ==
    { Absent, Str(<<"A", "d", "m", "i", "n">>), Str(Editor), List(<<admin>>) }

NsRolesValues ==
    { Absent, List(<<<<"A", "d", "m", "i", "n">>>>), List(<<Editor>>),
      Str(admin) }

PolicyPayloads ==
    { Claims(p, sc, rs, r, ns) :
        p \in PermissionsValues, sc \in ScopeValues, rs \in RolesValues,
        r \in RoleValues, ns \in NsRolesValues }

RequiredScopes ==
    { None, List(<<>>), List(<<read_trips>>), List(<<read>>),
      List(<<read_trips, write_trips>>) }

EvalAdmin ==
    /\ pol = NoPol
    /\ \E payload \in PolicyPayloads :
          pol' = [NoPol EXCEPT !.op = "is_admin_from_payload",
                               !.payload = payload,
                               !.admin = is_admin_from_payload(payload)]
    /\ UNCHANGED <<AUTH0_DOMAIN, published, jwks_cache, stored, call, req>>

EvalScopes ==
    /\ pol = NoPol
    /\ \E payload \in PolicyPayloads, required \in RequiredScopes :
          pol' = [NoPol EXCEPT !.op = "scope_check",
                               !.payload = payload,
                               !.required = required,
                               !.outcome = ScopeCheck(payload, required)]
    /\ UNCHANGED <<AUTH0_DOMAIN, published, jwks_cache, stored, call, req>>

\* the evaluation is over; the next one may start
EvalEnd ==
    /\ pol # NoPol
    /\ pol' = NoPol
    /\ UNCHANGED <<AUTH0_DOMAIN, published, jwks_cache, stored, call, req>>

PolicyNext == EvalAdmin \/ EvalScopes \/ EvalEnd

PolicySpec == Init /\ [][PolicyNext]_vars

\* ------------------------------------------------------------------------
\* Vocabulary of the claims
\* ------------------------------------------------------------------------
\* the header is present and is exactly "Bearer" (any case) and one token
WellFormed(auth) ==
    /\ ~IsNone(auth)
    /\ Len(Split(auth.v)) = 2
    /\ Lower(Split(auth.v)[1]) = bearer

Finished == req.pc = "done"

\* the key set the request's get_jwks call returned
ReqJwks == call[Foreground].val

Message(text) == req.resp.message = <<text>>

KeyStoreUnavailable == req.resp.status = 500 /\ Message("JWKS indisponivel")

MalformedToken == req.resp.status = 401 /\ Message("Invalid header.")

UnknownSigningKey ==
    req.resp.status = 401 /\ Message("Unable to find appropriate key")

TokenExpired == req.resp.status = 401 /\ Message("token expired")

InvalidToken ==
    /\ req.resp.status = 401
    /\ Len(req.resp.message) = 2
    /\ req.resp.message[1] = "Invalid token: "

InsufficientScope == req.resp.status = 403 /\ Message("insufficient_scope")

NotAdmin ==
    /\ req.resp.status = 403
    /\ req.resp.error = "forbidden"
    /\ Message("Admin role required")

HeaderDecodes == req.token.header.t = "dict"

\* the keys of the returned key set
ReqKeys == Get(ReqJwks, "keys", List(<<>>)).v

\* the token names a key identifier and key i of the key set carries it
KidIs(i) ==
    /\ "kid" \in DOMAIN req.token.header.v
    /\ "kid" \in DOMAIN ReqKeys[i].v
    /\ ReqKeys[i].v.kid = req.token.header.v.kid

\* the request went through every check of the authenticated guard but the
\* scope check: header, key set, token header, a key with the token's kid
\* whose material made the signature, allow-listed algorithm, iat/nbf, exp,
\* aud and iss
Verified ==
    /\ WellFormed(req.auth)
    /\ ~IsNone(ReqJwks)
    /\ HeaderDecodes
    /\ req.token.body # NotRead
    /\ req.token.header.v.alg = Str("RS256")
    /\ \E i \in DOMAIN ReqKeys :
          /\ Get(ReqKeys[i], "kid", None) = Get(req.token.header, "kid", None)
          /\ Get(ReqKeys[i], "n", None) = Str(req.token.body.signedBy)
    /\ req.token.body.nbfOK
    /\ ~req.token.body.expired
    /\ req.token.body.audOK
    /\ req.token.body.issOK

\* the token names a key identifier that some key of the key set carries
KidKnown == \E i \in DOMAIN ReqKeys : KidIs(i)

\* the key the lookup keeps: the last one whose kid is the token's
MatchedIndex ==
    CHOOSE i \in DOMAIN ReqKeys :
        /\ Get(ReqKeys[i], "kid", None) = Get(req.token.header, "kid", None)
        /\ \A j \in DOMAIN ReqKeys :
              j > i => Get(ReqKeys[j], "kid", None)
                          # Get(req.token.header, "kid", None)

\* the algorithm is allow-listed and the matched key made the signature
SignatureVerifies ==
    /\ req.token.header.v.alg = Str("RS256")
    /\ Get(ReqKeys[MatchedIndex], "n", None) = Str(req.token.body.signedBy)

\* ------------------------------------------------------------------------
\* C1
\* ------------------------------------------------------------------------
\* C1: a request whose Authorization header is absent, empty, or not exactly
\* "Bearer" (any case) followed by one token ends with status 401, and its
\* handler is never invoked, whatever the key cache holds.
C1_MalformedHeaderGets401 ==
    (req.pc # "idle" /\ ~WellFormed(req.auth))
        => (Finished /\ req.resp.status = 401 /\ ~req.invoked)

\* ------------------------------------------------------------------------
\* C2
\* ------------------------------------------------------------------------
\* C2: the handler is invoked only for a request that passed header
\* extraction, key lookup, cryptographic verification and, when scopes are
\* required, the scope check; request.current_user is then the verified
\* payload; on every failure path of requires_auth no principal is attached
\* and the handler is not invoked.  (On the 403 of requires_admin, which is
\* not a failure of requires_auth, the principal is attached and the handler
\* is not invoked.)
C2_HandlerOnlyAfterGuard ==
    /\ req.invoked =>
          /\ Finished
          /\ Verified
          /\ Truthy(req.route.required_scopes) =>
                ScopesGranted(req.token.body.payload, req.route.required_scopes)
          /\ req.current_user = req.token.body.payload
    /\ (Finished /\ req.resp.status \in {401, 403, 500} /\ ~NotAdmin) =>
          (IsNone(req.current_user) /\ ~req.invoked)
    /\ (Finished /\ NotAdmin) =>
          (Verified /\ req.current_user = req.token.body.payload
             /\ ~req.invoked)
    /\ ~Finished => (IsNone(req.current_user) /\ ~req.invoked)

C2_Witness ==
    /\ Finished
    /\ req.invoked
    /\ Truthy(req.route.required_scopes)
    /\ req.current_user = req.token.body.payload

\* ------------------------------------------------------------------------
\* C3
\* ------------------------------------------------------------------------
\* C3: a request whose get_jwks call returned None ends with
\* KeyStoreUnavailable (500) without its handler invoked, and no request
\* whose key lookup started after a key set was stored fails with
\* KeyStoreUnavailable.
C3_UnavailableOnlyUntilStored ==
    /\ (Finished /\ WellFormed(req.auth) /\ IsNone(ReqJwks)) =>
          (KeyStoreUnavailable /\ ~req.invoked)
    /\ (Finished /\ KeyStoreUnavailable) =>
          ~call[Foreground].startedAfterStore

\* ------------------------------------------------------------------------
\* C4
\* ------------------------------------------------------------------------
\* C4: once a get_jwks call has stored a key set the cache is never empty
\* again, and a call that returns after the store returns a key set (seen
\* on the call of the foreground request, the one whose result is kept).
C4_StoredKeySetStays ==
    /\ stored => ~IsNone(jwks_cache)
    /\ (call[Foreground].pc = "returned"
          /\ call[Foreground].returnedAfterStore) => ~IsNone(ReqJwks)

\* ------------------------------------------------------------------------
\* C5
\* ------------------------------------------------------------------------
\* the request reached jwt.decode with a token whose kid a key of the key
\* set carries and whose exp is in the past
ExpiredKnownKid ==
    /\ Finished
    /\ WellFormed(req.auth)
    /\ ~IsNone(ReqJwks)
    /\ HeaderDecodes
    /\ KidKnown
    /\ req.token.body.expired

\* C5 as stated: such a request is rejected as TokenExpired (401, "token
\* expired") whether or not the signature is valid, handler not invoked.
C5_ExpiredWhateverSignature ==
    ExpiredKnownKid => (TokenExpired /\ ~req.invoked)

\* C5 amended: such a request is rejected with 401 and its handler is not
\* invoked; it is rejected as TokenExpired exactly when the algorithm is
\* allow-listed, the signature verifies under the matched key and iat/nbf
\* pass, whatever its audience and issuer, and as InvalidToken otherwise.
C5_ExpiredOnceSignatureVerifies ==
    ExpiredKnownKid =>
        /\ req.resp.status = 401
        /\ ~req.invoked
        /\ TokenExpired <=> (SignatureVerifies /\ req.token.body.nbfOK)
        /\ ~TokenExpired => InvalidToken

C5_Witness ==
    /\ ExpiredKnownKid
    /\ TokenExpired
    /\ ~req.token.body.audOK
    /\ ~req.token.body.issOK

\* ------------------------------------------------------------------------
\* C6
\* ------------------------------------------------------------------------
\* x, a str, is "admin" in any case; x, a list, holds such a str
HoldsAdmin(x) ==
    \/ IsStr(x) /\ Lower(x.v) = admin
    \/ IsList(x) /\ \E i \in DOMAIN x.v : Lower(x.v[i]) = admin

\* (a), (b) or (c) of the claim
AdminByClaims(payload) ==
    \/ /\ k_permissions \in DOMAIN payload.v
       /\ IsList(payload.v[k_permissions])
       /\ \/ InList(delete_trip, payload.v[k_permissions].v)
          \/ InList(delete_investor, payload.v[k_permissions].v)
    \/ \E k \in {k_roles, k_role} :
          k \in DOMAIN payload.v /\ HoldsAdmin(payload.v[k])
    \/ \E k \in DOMAIN payload.v :
          /\ EndsWith(k, slash_roles)
          /\ IsList(payload.v[k])
          /\ HoldsAdmin(payload.v[k])

\* C6: is_admin_from_payload is true exactly for the payloads with a delete
\* permission in the list "permissions", with "admin" (any case) in "roles"
\* or in "role", or with "admin" in a list claim whose name ends "/roles".
C6_AdminExactlyByClaims ==
    pol.op = "is_admin_from_payload" =>
        (pol.admin <=> AdminByClaims(pol.payload))

\* ------------------------------------------------------------------------
\* C7
\* ------------------------------------------------------------------------
\* every required scope is a token of the str claim "scope" or an element
\* of the list claim "permissions"
GrantedByClaims(payload, required) ==
    \A i \in DOMAIN required.v :
        \/ /\ k_scope \in DOMAIN payload.v
           /\ IsStr(payload.v[k_scope])
           /\ InList(required.v[i], Split(payload.v[k_scope].v))
        \/ /\ k_permissions \in DOMAIN payload.v
           /\ IsList(payload.v[k_permissions])
           /\ InList(required.v[i], payload.v[k_permissions].v)

\* C7: the scope check passes exactly when every required scope is granted
\* by "scope" or by the list "permissions"; an empty or absent required set
\* passes; a failed check is abort(403, "insufficient_scope").
C7_ScopeCheckExactlyByClaims ==
    pol.op = "scope_check" =>
        /\ (pol.outcome.kind = "call") <=>
              (~Truthy(pol.required)
                  \/ GrantedByClaims(pol.payload, pol.required))
        /\ pol.outcome.kind # "call" =>
              pol.outcome = Abort(403, "insufficient_scope")

\* ------------------------------------------------------------------------
\* C8
\* ------------------------------------------------------------------------
\* C8: on a requires_admin route the handler is invoked exactly when the
\* request passes the authenticated guard and is_admin_from_payload holds
\* for its payload; a verified non-admin request gets 403 "forbidden" /
\* "Admin role required"; a request failing authentication gets 401 or 500
\* and not the admin check's response.
C8_AdminGuard ==
    (Finished /\ req.route.guard = "admin") =>
        /\ req.invoked <=>
              (Verified /\ is_admin_from_payload(req.token.body.payload))
        /\ (Verified /\ ~is_admin_from_payload(req.token.body.payload)) =>
              (NotAdmin /\ ~req.invoked)
        /\ ~Verified =>
              (req.resp.status \in {401, 500} /\ ~NotAdmin /\ ~req.invoked)

C8_Witness ==
    /\ Finished
    /\ req.route.guard = "admin"
    /\ Verified
    /\ NotAdmin

\* ------------------------------------------------------------------------
\* C9
\* ------------------------------------------------------------------------
\* C9 as stated: a token whose header does not decode is rejected as
\* MalformedToken (401) even when the key set is unavailable, and
\* KeyStoreUnavailable (500) is returned only for tokens whose header
\* decodes.
C9_HeaderDecodeBeforeKeySet ==
    (Finished /\ WellFormed(req.auth)) =>
        /\ ~HeaderDecodes => MalformedToken
        /\ KeyStoreUnavailable => HeaderDecodes

\* C9 amended: the key set comes first.  A request whose get_jwks call
\* returned None is rejected as KeyStoreUnavailable (500) whether or not its
\* token header decodes; a token whose header does not decode is rejected as
\* MalformedToken (401) exactly when a key set was returned.
C9_KeySetBeforeHeaderDecode ==
    (Finished /\ WellFormed(req.auth)) =>
        /\ KeyStoreUnavailable <=> IsNone(ReqJwks)
        /\ MalformedToken <=> (~IsNone(ReqJwks) /\ ~HeaderDecodes)
        /\ (KeyStoreUnavailable \/ MalformedToken) => ~req.invoked

C9_Witness ==
    /\ Finished
    /\ WellFormed(req.auth)
    /\ ~HeaderDecodes
    /\ KeyStoreUnavailable

\* ------------------------------------------------------------------------
\* C10
\* ------------------------------------------------------------------------
\* C10: with a key set returned (keys without kid included), a token whose
\* header names no key identifier is rejected with 401, matched to no key
\* and not passed to jwt.decode; a token whose kid no key of the key set
\* carries is rejected as UnknownSigningKey (401).
C10_KidRequiredAndKnown ==
    (Finished /\ WellFormed(req.auth) /\ ~IsNone(ReqJwks) /\ HeaderDecodes) =>
        /\ "kid" \notin DOMAIN req.token.header.v =>
              /\ req.resp.status = 401
              /\ req.token.body = NotRead
              /\ ~req.invoked
        /\ ~KidKnown => (UnknownSigningKey /\ ~req.invoked)

=============================================================================
